---- MODULE Spec2Model ----
(***************************************************************************)
(* Khumbuza: the task store behind the add / list / complete / remove      *)
(* commands of src/khumbuza.py, one command per process invocation.        *)
(*                                                                         *)
(* Text values are sequences of one-character strings, so that parsing,    *)
(* formatting and SQLite's bytewise text comparison are computed.  An      *)
(* optional value (Python None, SQL NULL) is the empty sequence NULL, a   *)
(* present value x is the one-element sequence Some(x).                    *)
(***************************************************************************)
EXTENDS Integers, Sequences, FiniteSets, TLC

VARIABLES
    db_exists,   \* DB_FILE.exists()
    task,        \* the rows of table task, in insertion order
    lastOp,      \* the last command invocation: its arguments and what it reported
    schedule_db, \* the file DB_FILE of setup_db.py: NULL, or Some(its tables)
    proc         \* per process: the command it is in the middle of, if any

vars == <<db_exists, task, lastOp, schedule_db, proc>>

\* What the commands of khumbuza.py, run one at a time, leave alone.
others == <<schedule_db, proc>>

(* ------------------------------------------------------------------ *)
(* Bounds and input domains                                            *)
(* ------------------------------------------------------------------ *)

\* Most rows the task table holds in the model.
MaxTasks == 2

NULL == <<>>
Some(x) == <<x>>
IsNull(o) == o = <<>>
Val(o) == o[1]

\* Python truthiness of an optional string / optional int (None, "" and 0 are falsy).
TruthyStr(o) == ~IsNull(o) /\ Val(o) # <<>>
TruthyInt(o) == ~IsNull(o) /\ Val(o) # 0

(* ------------------------------------------------------------------ *)
(* Characters and text                                                 *)
(* ------------------------------------------------------------------ *)

Digits == <<"0", "1", "2", "3", "4", "5", "6", "7", "8", "9">>

IsDigit(c) == \E i \in 1..10 : Digits[i] = c

DigitVal(c) == (CHOOSE i \in 1..10 : Digits[i] = c) - 1

\* The byte of a character, for the characters the inputs use.
Code(c) ==
    IF IsDigit(c) THEN 48 + DigitVal(c)
    ELSE IF c = " " THEN 32
    ELSE IF c = "-" THEN 45
    ELSE IF c = "/" THEN 47
    ELSE 120

\* memcmp order of two texts (SQLite's BINARY collation): a < b.
RECURSIVE TextLess(_, _)
TextLess(a, b) ==
    IF b = <<>> THEN FALSE
    ELSE IF a = <<>> THEN TRUE
    ELSE IF Code(Head(a)) # Code(Head(b)) THEN Code(Head(a)) < Code(Head(b))
    ELSE TextLess(Tail(a), Tail(b))

TextLeq(a, b) == a = b \/ TextLess(a, b)

(* ------------------------------------------------------------------ *)
(* Calendar dates: records [y, m, d]                                   *)
(* ------------------------------------------------------------------ *)

IsLeap(y) == (y % 4 = 0) /\ ((y % 100 # 0) \/ (y % 400 = 0))

DaysInMonth(y, m) ==
    IF m = 2 THEN (IF IsLeap(y) THEN 29 ELSE 28)
    ELSE IF m \in {4, 6, 9, 11} THEN 30
    ELSE 31

NextDay(dt) ==
    IF dt.d < DaysInMonth(dt.y, dt.m) THEN [dt EXCEPT !.d = dt.d + 1]
    ELSE IF dt.m < 12 THEN [y |-> dt.y, m |-> dt.m + 1, d |-> 1]
    ELSE [y |-> dt.y + 1, m |-> 1, d |-> 1]

\* date + timedelta(days=n), n >= 0
RECURSIVE AddDays(_, _)
AddDays(dt, n) == IF n = 0 THEN dt ELSE AddDays(NextDay(dt), n - 1)

\* A number as exactly w decimal digits, zero-padded (%0wd).
RECURSIVE Pad(_, _)
Pad(n, w) == IF w = 0 THEN <<>> ELSE Pad(n \div 10, w - 1) \o <<Digits[(n % 10) + 1]>>

\* date.isoformat(): YYYY-MM-DD, zero-padded
isoformat(dt) == Pad(dt.y, 4) \o <<"-">> \o Pad(dt.m, 2) \o <<"-">> \o Pad(dt.d, 2)

(* ------------------------------------------------------------------ *)
(* datetime.strptime(due, '%Y-%m-%d')                                  *)
(* ------------------------------------------------------------------ *)

\* %Y : \d\d\d\d
YearTok(t) == Len(t) = 4 /\ \A i \in 1..4 : IsDigit(t[i])

\* %m : 1[0-2] | 0[1-9] | [1-9]
MonthTok(t) ==
    \/ Len(t) = 2 /\ t[1] = "1" /\ t[2] \in {"0", "1", "2"}
    \/ Len(t) = 2 /\ t[1] = "0" /\ IsDigit(t[2]) /\ t[2] # "0"
    \/ Len(t) = 1 /\ IsDigit(t[1]) /\ t[1] # "0"

\* %d : 3[0-1] | [1-2]\d | 0[1-9] | [1-9] | " "[1-9]
DayTok(t) ==
    \/ Len(t) = 2 /\ t[1] = "3" /\ t[2] \in {"0", "1"}
    \/ Len(t) = 2 /\ t[1] \in {"1", "2"} /\ IsDigit(t[2])
    \/ Len(t) = 2 /\ t[1] \in {"0", " "} /\ IsDigit(t[2]) /\ t[2] # "0"
    \/ Len(t) = 1 /\ IsDigit(t[1]) /\ t[1] # "0"

RECURSIVE TokVal(_)
TokVal(t) ==
    IF t = <<>> THEN 0
    ELSE IF t[Len(t)] = " " THEN 0
    ELSE 10 * TokVal(SubSeq(t, 1, Len(t) - 1)) + DigitVal(t[Len(t)])

\* The ways s splits as <year>-<month>-<day> with nothing left over:
\* the month is 1 or 2 characters long.
Splits(s) ==
    { ml \in {1, 2} :
        /\ Len(s) >= 4 + 1 + ml + 1 + 1
        /\ Len(s) <= 4 + 1 + ml + 1 + 2
        /\ s[5] = "-"
        /\ s[6 + ml] = "-"
        /\ YearTok(SubSeq(s, 1, 4))
        /\ MonthTok(SubSeq(s, 6, 5 + ml))
        /\ DayTok(SubSeq(s, 7 + ml, Len(s))) }

\* The date the text parses to; NULL when strptime raises ValueError
\* (no match, unconverted data, or a day the month does not have).
strptime(s) ==
    IF Splits(s) = {} THEN NULL
    ELSE LET ml == CHOOSE x \in Splits(s) : TRUE
             y  == TokVal(SubSeq(s, 1, 4))
             m  == TokVal(SubSeq(s, 6, 5 + ml))
             d  == TokVal(SubSeq(s, 7 + ml, Len(s)))
         IN IF y >= 1 /\ d <= DaysInMonth(y, m)
            THEN Some([y |-> y, m |-> m, d |-> d])
            ELSE NULL

(* ------------------------------------------------------------------ *)
(* Inputs                                                              *)
(* ------------------------------------------------------------------ *)

Jan05    == <<"2", "0", "2", "5", "-", "0", "1", "-", "0", "5">>
Jan06    == <<"2", "0", "2", "5", "-", "0", "1", "-", "0", "6">>
Jan5Bare == <<"2", "0", "2", "5", "-", "1", "-", "5">>
Feb30    == <<"2", "0", "2", "5", "-", "0", "2", "-", "3", "0">>
Slashed  == <<"0", "5", "/", "0", "1", "/", "2", "0", "2", "5">>

\* One command line of `add`: the values click hands to the callback.
AddArgs(title, due, description, weekly, monthly, yearly, remind) ==
    [title |-> title, due |-> due, description |-> description,
     weekly |-> weekly, monthly |-> monthly, yearly |-> yearly, remind |-> remind]

NoArgs == AddArgs("", NULL, NULL, FALSE, FALSE, FALSE, NULL)

\* The command lines of `add` tried: well-formed ones (no due date, an empty
\* one with an empty title, zero-padded and bare dates, each recurrence flag, reminders) and ones
\* with a malformed date, conflicting flags or a negative reminder.
AddInputs ==
    { AddArgs("A", NULL, NULL, FALSE, FALSE, FALSE, NULL),
      AddArgs("", Some(<<>>), NULL, FALSE, FALSE, FALSE, Some(0)),
      AddArgs("B", Some(Jan05), Some("note"), TRUE, FALSE, FALSE, NULL),
      AddArgs("A", Some(Jan06), NULL, FALSE, TRUE, FALSE, Some(2)),
      AddArgs("B", Some(Jan5Bare), NULL, FALSE, FALSE, TRUE, NULL),
      AddArgs("A", Some(Feb30), NULL, FALSE, FALSE, FALSE, NULL),
      AddArgs("B", Some(Slashed), NULL, TRUE, FALSE, FALSE, Some(2)),
      AddArgs("A", NULL, NULL, TRUE, TRUE, FALSE, NULL),
      AddArgs("B", Some(Jan05), NULL, FALSE, TRUE, TRUE, NULL),
      AddArgs("A", Some(Jan06), NULL, TRUE, TRUE, TRUE, Some(2)),
      AddArgs("A", NULL, NULL, FALSE, FALSE, FALSE, Some(-1)),
      AddArgs("B", Some(Jan5Bare), Some("note"), FALSE, FALSE, TRUE, Some(-1)) }

\* date.today() as the list command may see it
Todays == { [y |-> 2025, m |-> 1, d |-> 5] }

\* --days values (30 is the option's default)
Horizons == {0, 30}

\* What CURRENT_TIMESTAMP yields when a statement runs.  The clock itself is
\* not modelled: a date column records that a timestamp was written.
CURRENT_TIMESTAMP == "now"

\* Ids a command line may name: every id in use and one that is not.
TaskIds == 1..(MaxTasks + 1)

\* The processes that may run a command at the same time.
Procs == {"p1", "p2"}

\* A process between commands.
Idle ==
    [pc |-> "idle", cmd |-> "", task_id |-> 0, force |-> FALSE,
     result |-> NULL, outcome |-> ""]

(* ------------------------------------------------------------------ *)
(* The store                                                           *)
(* ------------------------------------------------------------------ *)

\* NewRow with the completed column defaulting to 1.
NewRow_Completed(id, title, description, due_date, recurrence_type, advance_notice_days) ==
    [id |-> id, title |-> title, description |-> description,
     due_date |-> due_date, completed |-> 1,
     recurrence_type |-> recurrence_type,
     advance_notice_days |-> advance_notice_days,
     completed_date |-> NULL, deleted_date |-> NULL]

\* The row INSERT creates: the columns the statement names, the rest at
\* their defaults (completed 0, the date columns NULL).
NewRow(id, title, description, due_date, recurrence_type, advance_notice_days) ==
    [id |-> id, title |-> title, description |-> description,
     due_date |-> due_date, completed |-> 0,
     recurrence_type |-> recurrence_type,
     advance_notice_days |-> advance_notice_days,
     completed_date |-> NULL, deleted_date |-> NULL]

\* What a command invocation leaves behind: its arguments, what it printed
\* (outcome, id, title, rows), the connections still open when it returned
\* and its exit status.
Report(cmd) ==
    [cmd |-> cmd, args |-> NoArgs, task_id |-> 0, force |-> FALSE,
     days |-> 0, show_all |-> FALSE, today |-> NULL,
     outcome |-> "", id |-> NULL, title |-> NULL, rows |-> <<>>,
     open_conns |-> 0, exit |-> 0]

\* The storage file DB_FILE of khumbuza.py is there or not; when it is, it
\* holds the table `task` the statements name, with the columns they name,
\* and no row yet.
Init ==
    /\ db_exists \in BOOLEAN
    /\ task = <<>>
    /\ lastOp = Report("none")
    /\ schedule_db = NULL
    /\ proc = [p \in Procs |-> Idle]

\* init_database / get_db_connection without the storage file: message, exit(1)
DbNotFound(r) == [r EXCEPT !.outcome = "db_not_found", !.exit = 1]

(* ------------------------------------------------------------------ *)
(* add                                                                 *)
(* ------------------------------------------------------------------ *)

\* sum(recurrence_flags)
FlagCount(a) ==
    (IF a.weekly THEN 1 ELSE 0) + (IF a.monthly THEN 1 ELSE 0)
        + (IF a.yearly THEN 1 ELSE 0)

\* `if due:` followed by a strptime that raises ValueError
BadDate(a) == TruthyStr(a.due) /\ IsNull(strptime(Val(a.due)))

\* FlagConflict with the comparison off by one.
FlagConflict_OffByOne(a) == FlagCount(a) > 2

\* sum(recurrence_flags) > 1
FlagConflict(a) == FlagCount(a) > 1

\* `if remind:` followed by `remind < 0`
NegativeRemind(a) == TruthyInt(a.remind) /\ Val(a.remind) < 0

\* due_date: the text as given, None when --due is absent or empty
due_date_of(a) == IF TruthyStr(a.due) THEN a.due ELSE NULL

recurrence_type_of(a) ==
    IF a.weekly THEN Some("weekly")
    ELSE IF a.monthly THEN Some("monthly")
    ELSE IF a.yearly THEN Some("yearly")
    ELSE NULL

advance_notice_days_of(a) == IF TruthyInt(a.remind) THEN Val(a.remind) ELSE 0

\* NextId counting only the rows that are not deleted.
NextId_LiveCount(t) ==
    1 + Cardinality({i \in DOMAIN t : IsNull(t[i].deleted_date)})

\* The id AUTOINCREMENT gives the next row: one more than the largest used.
NextId(t) ==
    IF t = <<>> THEN 1
    ELSE 1 + (CHOOSE m \in {t[i].id : i \in DOMAIN t} :
                 \A i \in DOMAIN t : t[i].id <= m)

\* INSERT INTO task (...) VALUES (...): the table with the new row
Insert(t, a) ==
    Append(t, NewRow(NextId(t), a.title, a.description, due_date_of(a),
                     recurrence_type_of(a), advance_notice_days_of(a)))

add(a) ==
    LET r == [Report("add") EXCEPT !.args = a] IN
    IF ~db_exists THEN
        /\ lastOp' = DbNotFound(r)
        /\ UNCHANGED <<db_exists, task, others>>
    ELSE IF BadDate(a) THEN
        /\ lastOp' = [r EXCEPT !.outcome = "invalid_date"]
        /\ UNCHANGED <<db_exists, task, others>>
    ELSE IF FlagConflict(a) THEN
        /\ lastOp' = [r EXCEPT !.outcome = "recurrence_conflict"]
        /\ UNCHANGED <<db_exists, task, others>>
    ELSE IF NegativeRemind(a) THEN
        /\ lastOp' = [r EXCEPT !.outcome = "negative_reminder"]
        /\ UNCHANGED <<db_exists, task, others>>
    ELSE
        /\ Len(task) < MaxTasks
        /\ task' = Insert(task, a)
        /\ lastOp' = [r EXCEPT !.outcome = "added",
                               !.id = Some(NextId(task)),
                               !.title = Some(a.title)]
        /\ UNCHANGED <<db_exists, others>>

(* ------------------------------------------------------------------ *)
(* list                                                                *)
(* ------------------------------------------------------------------ *)

\* The WHERE clause of the two queries of list.
ListWhere(row, show_all, cutoff_date) ==
    IF show_all THEN row.completed = 0
    ELSE /\ row.completed = 0
         /\ (IsNull(row.due_date) \/ TextLeq(Val(row.due_date), cutoff_date))

\* ORDER BY due_date ASC, id ASC: NULL sorts first, text by its bytes.
OrderBefore(a, b) ==
    IF a.due_date = b.due_date THEN a.id < b.id
    ELSE IF IsNull(a.due_date) THEN TRUE
    ELSE IF IsNull(b.due_date) THEN FALSE
    ELSE TextLess(Val(a.due_date), Val(b.due_date))

RECURSIVE Ordered(_)
Ordered(rows) ==
    IF rows = {} THEN <<>>
    ELSE LET first == CHOOSE a \in rows :
                          \A b \in rows \ {a} : OrderBefore(a, b)
         IN <<first>> \o Ordered(rows \ {first})

\* SELECT id, title, due_date, description
Columns(row) ==
    [id |-> row.id, title |-> row.title, due_date |-> row.due_date,
     description |-> row.description]

cutoff_date_of(today, days) == isoformat(AddDays(today, days))

ListQuery(t, show_all, cutoff_date) ==
    LET hit == { t[i] : i \in { j \in DOMAIN t :
                                  ListWhere(t[j], show_all, cutoff_date) } }
        srt == Ordered(hit)
    IN [i \in DOMAIN srt |-> Columns(srt[i])]

list(days, show_all, today) ==
    LET r == [Report("list") EXCEPT !.days = days, !.show_all = show_all,
                                    !.today = Some(today)] IN
    /\ lastOp' = IF ~db_exists THEN DbNotFound(r)
                 ELSE [r EXCEPT !.outcome = "listed",
                                !.rows = ListQuery(task, show_all,
                                                   cutoff_date_of(today, days))]
    /\ UNCHANGED <<db_exists, task, others>>

(* ------------------------------------------------------------------ *)
(* complete and remove                                                 *)
(* ------------------------------------------------------------------ *)

\* SelectWhere without the deleted_date filter.
SelectWhere_NoDeletedFilter(row, task_id) == row.id = task_id

\* SELECT title, completed FROM task WHERE id = ? AND deleted_date IS NULL
SelectWhere(row, task_id) == row.id = task_id /\ IsNull(row.deleted_date)

\* fetchone(): the first matching row, None when there is none
FetchOne(t, task_id) ==
    LET hit == { i \in DOMAIN t : SelectWhere(t[i], task_id) } IN
    IF hit = {} THEN NULL
    ELSE Some(t[CHOOSE i \in hit : \A j \in hit : i <= j])

\* is_completed with the check never taken.
is_completed_Never(row) == FALSE

\* `if is_completed:` on the completed column of the fetched row
is_completed(row) == row.completed # 0

\* SetCompleted without the completed_date assignment.
SetCompleted_NoDate(row, ts) == [row EXCEPT !.completed = 1]

\* SET completed = 1, completed_date = CURRENT_TIMESTAMP
SetCompleted(row, ts) == [row EXCEPT !.completed = 1, !.completed_date = Some(ts)]

\* SET deleted_date = CURRENT_TIMESTAMP
SetDeleted(row, ts) == [row EXCEPT !.deleted_date = Some(ts)]

\* UPDATE task SET completed = 1, ... WHERE id = ?
UpdateCompleted(t, task_id, ts) ==
    [i \in DOMAIN t |-> IF t[i].id = task_id THEN SetCompleted(t[i], ts) ELSE t[i]]

\* UPDATE task SET deleted_date = ... WHERE id = ?
UpdateDeleted(t, task_id, ts) ==
    [i \in DOMAIN t |-> IF t[i].id = task_id THEN SetDeleted(t[i], ts) ELSE t[i]]

complete(task_id) ==
    LET r      == [Report("complete") EXCEPT !.task_id = task_id]
        result == FetchOne(task, task_id)
    IN
    IF ~db_exists THEN
        /\ lastOp' = DbNotFound(r)
        /\ UNCHANGED <<db_exists, task, others>>
    ELSE IF IsNull(result) THEN
        /\ lastOp' = [r EXCEPT !.outcome = "not_found"]
        /\ UNCHANGED <<db_exists, task, others>>
    ELSE IF is_completed(Val(result)) THEN
        /\ lastOp' = [r EXCEPT !.outcome = "already_completed"]
        /\ UNCHANGED <<db_exists, task, others>>
    ELSE
        /\ task' = UpdateCompleted(task, task_id, CURRENT_TIMESTAMP)
        /\ lastOp' = [r EXCEPT !.outcome = "completed",
                               !.title = Some(Val(result).title)]
        /\ UNCHANGED <<db_exists, others>>

\* RemoveRefused with the refusal never taken.
RemoveRefused_Never(row, force) == FALSE

\* RemoveRefused with the force flag ignored.
RemoveRefused_IgnoresForce(row, force) == ~is_completed(row)

\* `if not is_completed and not force:`
RemoveRefused(row, force) == ~is_completed(row) /\ ~force

remove(task_id, force) ==
    LET r      == [Report("remove") EXCEPT !.task_id = task_id, !.force = force]
        result == FetchOne(task, task_id)
    IN
    IF ~db_exists THEN
        /\ lastOp' = DbNotFound(r)
        /\ UNCHANGED <<db_exists, task, others>>
    ELSE IF IsNull(result) THEN
        /\ lastOp' = [r EXCEPT !.outcome = "not_found"]
        /\ UNCHANGED <<db_exists, task, others>>
    ELSE IF RemoveRefused(Val(result), force) THEN
        \* returns without conn.close()
        /\ lastOp' = [r EXCEPT !.outcome = "not_completed", !.open_conns = 1]
        /\ UNCHANGED <<db_exists, task, others>>
    ELSE
        /\ task' = UpdateDeleted(task, task_id, CURRENT_TIMESTAMP)
        /\ lastOp' = [r EXCEPT !.outcome = "removed",
                               !.title = Some(Val(result).title)]
        /\ UNCHANGED <<db_exists, others>>

(* ------------------------------------------------------------------ *)
(* Specification                                                       *)
(* ------------------------------------------------------------------ *)

\* The commands of khumbuza.py, one invocation after the other.
Next ==
    \/ \E a \in AddInputs : add(a)
    \/ \E days \in Horizons, show_all \in BOOLEAN, today \in Todays :
           list(days, show_all, today)
    \/ \E task_id \in TaskIds : complete(task_id)
    \/ \E task_id \in TaskIds, force \in BOOLEAN : remove(task_id, force)

Spec == Init /\ [][Next]_vars

(* ------------------------------------------------------------------ *)
(* setup_db.py                                                         *)
(* ------------------------------------------------------------------ *)

\* CREATE TABLE tasks (...): the table's name and its columns
TasksTable ==
    [name |-> "tasks",
     columns |-> {"id", "title", "description", "due_date", "completed",
                  "recurrence_type", "recurrence_interval",
                  "advance_notice_days", "created_date", "completed_date"}]

\* sqlite3.connect(DB_FILE): the tables of the file, none when it is new
Connect(file) == IF IsNull(file) THEN {} ELSE Val(file)

\* CREATE TABLE raises OperationalError when a table of that name exists.
TableExists(tables, name) == \E t \in tables : t.name = name

\* setup_database(): creates the file and its table; a CREATE TABLE that
\* raises ends the script with the traceback, before commit and close.
setup_database ==
    LET r      == Report("setup_database")
        tables == Connect(schedule_db)
    IN
    /\ IF TableExists(tables, TasksTable.name) THEN
           /\ lastOp' = [r EXCEPT !.outcome = "table_exists_error",
                                  !.open_conns = 1, !.exit = 1]
           /\ schedule_db' = Some(tables)
       ELSE
           /\ lastOp' = [r EXCEPT !.outcome = "created"]
           /\ schedule_db' = Some(tables \cup {TasksTable})
    /\ UNCHANGED <<db_exists, task, proc>>

\* A few command lines of add, for the runs that follow the bootstrap.
BootAdds ==
    { AddArgs("A", NULL, NULL, FALSE, FALSE, FALSE, NULL),
      AddArgs("B", Some(Jan05), Some("note"), TRUE, FALSE, FALSE, NULL) }

\* The bootstrap script and the commands, one invocation after the other.
NextBoot ==
    \/ setup_database
    \/ \E a \in BootAdds : add(a)
    \/ \E show_all \in BOOLEAN, today \in Todays :
           list(30, show_all, today)
    \/ \E task_id \in TaskIds : complete(task_id)
    \/ \E task_id \in TaskIds, force \in BOOLEAN : remove(task_id, force)

SpecBoot == Init /\ [][NextBoot]_vars

(* ------------------------------------------------------------------ *)
(* Two invocations of khumbuza.py as separate processes                *)
(* ------------------------------------------------------------------ *)

\* The check of complete and of remove with every task let through.
Refused_Never(cmd, row, force) == FALSE

\* `if is_completed:` of complete, `if not is_completed and not force:`
\* of remove
Refused(cmd, row, force) ==
    IF cmd = "complete" THEN is_completed(row) ELSE RemoveRefused(row, force)

\* A process that has returned to the shell after printing `outcome`
Returned(cmd, task_id, force, outcome) ==
    [Idle EXCEPT !.cmd = cmd, !.task_id = task_id, !.force = force,
                 !.outcome = outcome]

\* The first statement of complete and of remove: init_database, connect,
\* SELECT ... fetchone and the checks on the fetched row.  The process
\* keeps the fetched row and goes on to its UPDATE, or returns.
Check(p, cmd, task_id, force) ==
    LET result == FetchOne(task, task_id) IN
    /\ proc[p].pc = "idle"
    /\ proc' = [proc EXCEPT ![p] =
           IF ~db_exists THEN Returned(cmd, task_id, force, "db_not_found")
           ELSE IF IsNull(result) THEN Returned(cmd, task_id, force, "not_found")
           ELSE IF Refused(cmd, Val(result), force) THEN
               Returned(cmd, task_id, force,
                        IF cmd = "complete" THEN "already_completed"
                        ELSE "not_completed")
           ELSE [pc |-> "checked", cmd |-> cmd, task_id |-> task_id,
                 force |-> force, result |-> result, outcome |-> ""]]
    /\ UNCHANGED <<db_exists, task, lastOp, schedule_db>>

\* The second statement: UPDATE task SET ... WHERE id = ?, commit, close.
\* It runs on the store as it is now, not as the process read it.
Write(p) ==
    /\ proc[p].pc = "checked"
    /\ task' = IF proc[p].cmd = "complete"
               THEN UpdateCompleted(task, proc[p].task_id, CURRENT_TIMESTAMP)
               ELSE UpdateDeleted(task, proc[p].task_id, CURRENT_TIMESTAMP)
    /\ proc' = [proc EXCEPT ![p] =
           Returned(proc[p].cmd, proc[p].task_id, proc[p].force,
                    IF proc[p].cmd = "complete" THEN "completed" ELSE "removed")]
    /\ UNCHANGED <<db_exists, lastOp, schedule_db>>

\* The one command line that fills the store for the two processes
ConcAdds == { AddArgs("A", NULL, NULL, FALSE, FALSE, FALSE, NULL) }

\* Statements of two processes in any order; sqlite serialises the
\* statements, nothing serialises the commands.
NextConc ==
    \/ \E a \in ConcAdds : add(a)
    \/ \E p \in Procs, cmd \in {"complete", "remove"},
          task_id \in TaskIds, force \in BOOLEAN : Check(p, cmd, task_id, force)
    \/ \E p \in Procs : Write(p)

SpecConc == Init /\ [][NextConc]_vars

(* ------------------------------------------------------------------ *)
(* Vocabulary of the properties                                        *)
(* ------------------------------------------------------------------ *)

Rejections == {"invalid_date", "recurrence_conflict", "negative_reminder"}

\* The command ran against the store (the storage file was there).
Ran(op, cmd) == op.cmd = cmd /\ op.outcome # "db_not_found"

IsDeleted(row) == ~IsNull(row.deleted_date)

\* Positions of the rows of t with this id
Rows(t, id) == { i \in DOMAIN t : t[i].id = id }

\* Ids of the entries of a listing
ListedIds(rows) == { rows[i].id : i \in DOMAIN rows }

\* A due date was given on the command line (an empty --due gives none).
DueGiven(a) == ~IsNull(a.due) /\ Val(a.due) # <<>>

\* The input is one the add contract rejects: a due date that does not
\* parse, more than one recurrence flag, or a negative reminder.
Invalid(a) ==
    \/ DueGiven(a) /\ IsNull(strptime(Val(a.due)))
    \/ Cardinality({f \in {"weekly", "monthly", "yearly"} : a[f]}) > 1
    \/ ~IsNull(a.remind) /\ Val(a.remind) < 0

\* The calendar date a stored due date denotes
DateOf(due_date) == Val(strptime(Val(due_date)))

\* Calendar order of two dates
DateLess(a, b) ==
    \/ a.y < b.y
    \/ a.y = b.y /\ a.m < b.m
    \/ a.y = b.y /\ a.m = b.m /\ a.d < b.d

DateLeq(a, b) == a = b \/ DateLess(a, b)

(* ------------------------------------------------------------------ *)
(* C1                                                                  *)
(* ------------------------------------------------------------------ *)

\* C1: list never returns a task whose deleted_date is set, with or without
\* show_all and for any horizon.
C1_ListOmitsDeleted ==
    Ran(lastOp, "list") =>
        \A i \in DOMAIN task :
            IsDeleted(task[i]) => task[i].id \notin ListedIds(lastOp.rows)

(* ------------------------------------------------------------------ *)
(* C2                                                                  *)
(* ------------------------------------------------------------------ *)

\* C2: once a task is removed, every later complete or remove naming it
\* reports "not found", and no step changes any field of the task.
C2_DeletedIsTerminal ==
    [][ \A i \in DOMAIN task :
            IsDeleted(task[i]) =>
                /\ i \in DOMAIN task'
                /\ task'[i] = task[i]
                /\ (/\ (Ran(lastOp', "complete") \/ Ran(lastOp', "remove"))
                    /\ lastOp'.task_id = task[i].id)
                   => lastOp'.outcome = "not_found" ]_vars

\* A complete that names a removed, still incomplete task was answered "not found".
C2_Witness ==
    /\ Ran(lastOp, "complete")
    /\ lastOp.outcome = "not_found"
    /\ \E i \in DOMAIN task :
           /\ task[i].id = lastOp.task_id
           /\ IsDeleted(task[i])
           /\ task[i].completed = 0
           /\ IsNull(task[i].completed_date)

(* ------------------------------------------------------------------ *)
(* C3                                                                  *)
(* ------------------------------------------------------------------ *)

\* C3: complete on a task that is not deleted succeeds exactly once: on an
\* incomplete task it sets completed, leaves every other task alone and
\* reports the title; on a completed task it is rejected as "already
\* completed" and the store is unchanged; completed never reverts.
C3_CompleteOnce ==
    [][ /\ \A i \in DOMAIN task :
               (Ran(lastOp', "complete") /\ lastOp'.task_id = task[i].id
                    /\ ~IsDeleted(task[i]))
               => IF task[i].completed = 0
                  THEN /\ lastOp'.outcome = "completed"
                       /\ lastOp'.title = Some(task[i].title)
                       /\ DOMAIN task' = DOMAIN task
                       /\ task'[i].completed = 1
                       /\ ~IsNull(task'[i].completed_date)
                       /\ \A j \in DOMAIN task : j # i => task'[j] = task[j]
                  ELSE /\ lastOp'.outcome = "already_completed"
                       /\ task' = task
        /\ \A i \in DOMAIN task :
               task[i].completed = 1
               => /\ i \in DOMAIN task'
                  /\ task'[i].completed = 1
                  /\ task'[i].completed_date = task[i].completed_date ]_vars

\* A second complete of a completed task was rejected.
C3_Witness ==
    /\ Ran(lastOp, "complete")
    /\ lastOp.outcome = "already_completed"
    /\ \E i \in DOMAIN task :
           /\ task[i].id = lastOp.task_id
           /\ task[i].completed = 1
           /\ ~IsNull(task[i].completed_date)
           /\ ~IsDeleted(task[i])

(* ------------------------------------------------------------------ *)
(* C4                                                                  *)
(* ------------------------------------------------------------------ *)

\* C4: remove of an existing incomplete task without force is refused as
\* "not completed" and leaves the store unchanged; with force, or on a
\* completed task with or without force, it succeeds and sets deleted_date
\* of that task and nothing else.
C4_RemoveNeedsForce ==
    [][ \A i \in DOMAIN task :
            (Ran(lastOp', "remove") /\ lastOp'.task_id = task[i].id
                 /\ ~IsDeleted(task[i]))
            => IF task[i].completed = 0 /\ ~lastOp'.force
               THEN /\ lastOp'.outcome = "not_completed"
                    /\ task' = task
               ELSE /\ lastOp'.outcome = "removed"
                    /\ lastOp'.title = Some(task[i].title)
                    /\ DOMAIN task' = DOMAIN task
                    /\ IsDeleted(task'[i])
                    /\ task' = [task EXCEPT ![i].deleted_date =
                                                task'[i].deleted_date] ]_vars

\* An incomplete task was removed with force.
C4_Witness ==
    /\ Ran(lastOp, "remove")
    /\ lastOp.force
    /\ lastOp.outcome = "removed"
    /\ \E i \in DOMAIN task :
           /\ task[i].id = lastOp.task_id
           /\ task[i].completed = 0
           /\ IsDeleted(task[i])

(* ------------------------------------------------------------------ *)
(* C5                                                                  *)
(* ------------------------------------------------------------------ *)

ListAll(t) == ListQuery(t, TRUE, <<>>)

\* C6: every add of a valid input succeeds with an id no task had before,
\* creates the task incomplete and not deleted, and list --all right after
\* it has exactly one entry with that id, carrying the given title, and
\* still has every entry it had before.
C6_AddedIsListed ==
    [][ (Ran(lastOp', "add") /\ ~Invalid(lastOp'.args))
        => /\ lastOp'.outcome = "added"
           /\ ~IsNull(lastOp'.id)
           /\ LET id     == Val(lastOp'.id)
                  before == ListAll(task)
                  after  == ListAll(task')
              IN /\ Rows(task, id) = {}
                 /\ Cardinality(Rows(task', id)) = 1
                 /\ \A i \in Rows(task', id) :
                        /\ task'[i].completed = 0
                        /\ IsNull(task'[i].completed_date)
                        /\ ~IsDeleted(task'[i])
                 /\ Cardinality({k \in DOMAIN after : after[k].id = id}) = 1
                 /\ \A k \in DOMAIN after :
                        after[k].id = id => after[k].title = lastOp'.args.title
                 /\ \A k \in DOMAIN before :
                        \E m \in DOMAIN after : after[m] = before[k] ]_vars

\* A second task was added while the first was still listed.
C6_Witness ==
    /\ Ran(lastOp, "add")
    /\ lastOp.outcome = "added"
    /\ Len(task) >= 2
    /\ Len(ListAll(task)) >= 2
    /\ Val(lastOp.id) \in ListedIds(ListAll(task))

(* ------------------------------------------------------------------ *)
(* C7                                                                  *)
(* ------------------------------------------------------------------ *)

\* The tasks list must return for a horizon: incomplete, and with no due
\* date or a due date on or before today + days.
DueWithin(t, today, days) ==
    { t[i].id : i \in { j \in DOMAIN t :
          /\ t[j].completed = 0
          /\ \/ IsNull(t[j].due_date)
             \/ DateLeq(DateOf(t[j].due_date), AddDays(today, days)) } }

\* C7: list without show_all returns exactly the incomplete tasks whose due
\* date is absent or is a calendar date on or before today + days, for
\* every due date add accepts.
C7_ListHorizonExact ==
    (Ran(lastOp, "list") /\ ~lastOp.show_all)
    => ListedIds(lastOp.rows) = DueWithin(task, Val(lastOp.today), lastOp.days)

(* ------------------------------------------------------------------ *)
(* C8                                                                  *)
(* ------------------------------------------------------------------ *)

\* The order the listing must have: no due date first, then by calendar
\* date, ties (and undated tasks) by ascending id.
ComesBefore(a, b) ==
    IF IsNull(a.due_date) /\ IsNull(b.due_date) THEN a.id < b.id
    ELSE IF IsNull(a.due_date) THEN TRUE
    ELSE IF IsNull(b.due_date) THEN FALSE
    ELSE \/ DateLess(DateOf(a.due_date), DateOf(b.due_date))
         \/ DateOf(a.due_date) = DateOf(b.due_date) /\ a.id < b.id

\* C8: in the sequence list returns, undated tasks come first (by id), and
\* dated tasks follow by date, equal dates by id.
C8_ListOrderedByDate ==
    Ran(lastOp, "list")
    => \A i, j \in DOMAIN lastOp.rows :
           i < j => ComesBefore(lastOp.rows[i], lastOp.rows[j])

(* ------------------------------------------------------------------ *)
(* C9                                                                  *)
(* ------------------------------------------------------------------ *)

\* C9: when a command has returned, on any exit path, it holds no open
\* storage connection (as many are open as before the call: none).
C9_ConnectionReleased == lastOp.open_conns = 0

(* ------------------------------------------------------------------ *)
(* C10                                                                 *)
(* ------------------------------------------------------------------ *)

\* C10: for every stored task, completed_date is set if and only if
\* completed is true.
C10_CompletedDateIffCompleted ==
    \A i \in DOMAIN task :
        (task[i].completed # 0) <=> ~IsNull(task[i].completed_date)

\* One task completed (and later removed), another still incomplete.
C10_Witness ==
    /\ \E i \in DOMAIN task :
           task[i].completed = 1 /\ ~IsNull(task[i].completed_date)
               /\ IsDeleted(task[i])
    /\ \E i \in DOMAIN task :
           task[i].completed = 0 /\ IsNull(task[i].completed_date)

(* ------------------------------------------------------------------ *)
(* C11                                                                 *)
(* ------------------------------------------------------------------ *)

\* The bootstrap has run to its end at least once.
Bootstrapped == ~IsNull(schedule_db) /\ TasksTable \in Val(schedule_db)

\* C11: the bootstrap is idempotent: every call of setup_database, also one
\* after a first successful call, succeeds (and the store keeps its table).
C11_BootstrapIdempotent ==
    lastOp.cmd = "setup_database"
    => /\ lastOp.outcome = "created"
       /\ lastOp.exit = 0
       /\ Bootstrapped

(* ------------------------------------------------------------------ *)
(* C12                                                                 *)
(* ------------------------------------------------------------------ *)

\* Ids of the rows of a table, deleted and completed ones included
Ids(t) == { t[i].id : i \in DOMAIN t }

\* C12: ids are unique and never reused or changed: no step changes the id
\* of an existing task or drops a task, the ids of the store stay pairwise
\* different, and a successful add returns an id no task ever created had.
C12_IdsUniqueAndStable ==
    [][ /\ \A i \in DOMAIN task :
               i \in DOMAIN task' /\ task'[i].id = task[i].id
        /\ \A i, j \in DOMAIN task' :
               task'[i].id = task'[j].id => i = j
        /\ (Ran(lastOp', "add") /\ lastOp'.outcome = "added")
           => /\ ~IsNull(lastOp'.id)
              /\ Val(lastOp'.id) \notin Ids(task)
              /\ Ids(task') = Ids(task) \cup {Val(lastOp'.id)} ]_vars

\* A task was added after an earlier task had been removed.
C12_Witness ==
    /\ Ran(lastOp, "add")
    /\ lastOp.outcome = "added"
    /\ \E i \in DOMAIN task :
           IsDeleted(task[i]) /\ task[i].id # Val(lastOp.id)
    /\ \E i \in DOMAIN task :
           ~IsDeleted(task[i]) /\ task[i].id = Val(lastOp.id)

(* ------------------------------------------------------------------ *)
(* C13                                                                 *)
(* ------------------------------------------------------------------ *)

\* The lifecycle state of a task
Lifecycle(row) ==
    IF IsDeleted(row) THEN "DELETED"
    ELSE IF row.completed # 0 THEN "COMPLETE"
    ELSE "INCOMPLETE"

\* The outcomes of a command that was rejected
Refusals ==
    Rejections \cup {"db_not_found", "not_found", "already_completed", "not_completed"}

\* C13: the lifecycle of a task is one-way: a step leaves a task as it is, or
\* takes it from INCOMPLETE to COMPLETE (a successful complete of that task),
\* from INCOMPLETE to DELETED (a successful remove of that task with force)
\* or from COMPLETE to DELETED (a successful remove of that task); completed
\* never goes back to false, a set deleted_date is never cleared, and list
\* and every rejected command change no task.
C13_LifecycleOneWay ==
    [][ /\ \A i \in DOMAIN task :
            /\ i \in DOMAIN task'
            /\ \/ task'[i] = task[i]
               \/ /\ Lifecycle(task[i]) = "INCOMPLETE"
                  /\ Lifecycle(task'[i]) = "COMPLETE"
                  /\ Ran(lastOp', "complete")
                  /\ lastOp'.outcome = "completed"
                  /\ lastOp'.task_id = task[i].id
               \/ /\ Lifecycle(task[i]) = "INCOMPLETE"
                  /\ Lifecycle(task'[i]) = "DELETED"
                  /\ task'[i].completed = 0
                  /\ Ran(lastOp', "remove")
                  /\ lastOp'.outcome = "removed"
                  /\ lastOp'.force
                  /\ lastOp'.task_id = task[i].id
               \/ /\ Lifecycle(task[i]) = "COMPLETE"
                  /\ Lifecycle(task'[i]) = "DELETED"
                  /\ task'[i].completed # 0
                  /\ Ran(lastOp', "remove")
                  /\ lastOp'.outcome = "removed"
                  /\ lastOp'.task_id = task[i].id
            /\ task[i].completed # 0 => task'[i].completed # 0
            /\ IsDeleted(task[i]) => task'[i].deleted_date = task[i].deleted_date
        /\ (lastOp'.cmd = "list" \/ lastOp'.outcome \in Refusals)
           => task' = task ]_vars

\* A completed task was removed without force.
C13_Witness ==
    /\ Ran(lastOp, "remove")
    /\ ~lastOp.force
    /\ lastOp.outcome = "removed"
    /\ \E i \in DOMAIN task :
           /\ task[i].id = lastOp.task_id
           /\ task[i].completed = 1
           /\ Lifecycle(task[i]) = "DELETED"

(* ------------------------------------------------------------------ *)
(* C14                                                                 *)
(* ------------------------------------------------------------------ *)

\* Process p runs the UPDATE of command cmd in this step
Writes(p, cmd) ==
    /\ proc[p].pc = "checked"
    /\ proc[p].cmd = cmd
    /\ proc'[p].pc = "idle"

\* C14 as stated: the check and the write of complete and of remove act as
\* one even when the statements of two processes interleave: a task that
\* is already deleted is never marked completed, and completed_date is
\* written at most once per task.
C14_CheckThenWriteAtomic ==
    [][ \A p \in Procs : Writes(p, "complete") =>
            \A i \in DOMAIN task : task[i].id = proc[p].task_id =>
                /\ ~IsDeleted(task[i])
                /\ IsNull(task[i].completed_date) ]_vars

\* C14 amended: the write is guarded by the row as the process read it.
\* When the row is still as it was read, complete writes onto a task that
\* is neither deleted nor completed and remove onto a task that is not
\* deleted and is completed or forced; in every case the write touches the
\* one task of the command and is whole (completed is set exactly when
\* completed_date is).
C14_WriteGuardedBySnapshot ==
    [][ /\ \A p \in Procs : proc[p].pc = "checked" /\ proc'[p].pc = "idle" =>
            /\ ~IsNull(proc[p].result)
            /\ Val(proc[p].result).id = proc[p].task_id
            /\ \A i \in DOMAIN task :
                   /\ task[i].id # proc[p].task_id => task'[i] = task[i]
                   /\ task[i] = Val(proc[p].result) =>
                          /\ ~IsDeleted(task[i])
                          /\ proc[p].cmd = "complete" =>
                                 /\ task[i].completed = 0
                                 /\ IsNull(task[i].completed_date)
                                 /\ task'[i] = SetCompleted(task[i], CURRENT_TIMESTAMP)
                          /\ proc[p].cmd = "remove" =>
                                 /\ task[i].completed # 0 \/ proc[p].force
                                 /\ task'[i] = SetDeleted(task[i], CURRENT_TIMESTAMP)
        /\ \A i \in DOMAIN task' :
               task'[i].completed # 0 <=> ~IsNull(task'[i].completed_date) ]_vars

\* One process has completed a task that is as it read it, while the other
\* stands between its own check and its write.
C14_Witness ==
    \E p, q \in Procs :
        /\ p # q
        /\ proc[p].pc = "idle"
        /\ proc[p].outcome = "completed"
        /\ proc[q].pc = "checked"
        /\ \E i \in DOMAIN task :
               /\ task[i].id = proc[p].task_id
               /\ task[i].completed = 1
               /\ ~IsDeleted(task[i])

(* ------------------------------------------------------------------ *)
(* C15                                                                 *)
(* ------------------------------------------------------------------ *)

\* The commands of khumbuza.py
Commands == {"add", "list", "complete", "remove"}

\* C15: where no storage was provisioned by other means, the store that
\* setup_database provisions is the store the commands use: a command
\* stops with 'Database not found' exactly when setup_database has not
\* succeeded yet, and has then read and written nothing.
C15_BootstrapProvisionsStore ==
    (~db_exists /\ lastOp.cmd \in Commands) =>
        /\ lastOp.outcome = "db_not_found" <=> ~Bootstrapped
        /\ lastOp.outcome = "db_not_found" => task = <<>> /\ lastOp.rows = <<>>

(* ------------------------------------------------------------------ *)
(* C16                                                                 *)
(* ------------------------------------------------------------------ *)

\* The recurrence the flags of a command line ask for
FlagPassed(a) ==
    IF a.weekly /\ ~a.monthly /\ ~a.yearly THEN Some("weekly")
    ELSE IF a.monthly /\ ~a.weekly /\ ~a.yearly THEN Some("monthly")
    ELSE IF a.yearly /\ ~a.weekly /\ ~a.monthly THEN Some("yearly")
    ELSE NULL

\* The recurrence and the reminder of a stored task are well-formed
RecurrenceAndNoticeOk(row) ==
    /\ row.advance_notice_days >= 0
    /\ row.recurrence_type \in
           {NULL, Some("weekly"), Some("monthly"), Some("yearly")}

\* The row stores the recurrence and the reminder the command line gave
StoredAsGiven(row, a) ==
    /\ row.recurrence_type = FlagPassed(a)
    /\ IsNull(a.remind) => row.advance_notice_days = 0
    /\ ~IsNull(a.remind) => row.advance_notice_days = Val(a.remind)

\* C16: every stored task satisfies the creation constraints in every
\* state: its title is non-empty, its advance_notice_days is at least 0 (0
\* when no reminder was given) and its recurrence is none, weekly, monthly
\* or yearly, the one the flag passed to add asked for.
C16_CreationConstraints ==
    [][ /\ \A i \in DOMAIN task' :
               /\ task'[i].title # ""
               /\ RecurrenceAndNoticeOk(task'[i])
        /\ (Ran(lastOp', "add") /\ lastOp'.outcome = "added") =>
               \A i \in DOMAIN task' : task'[i].id = Val(lastOp'.id) =>
                   StoredAsGiven(task'[i], lastOp'.args) ]_vars

====
